---- MODULE Spec2Model ----
(***************************************************************************)
(* Training-load pipeline of coros-pulse-ai: the incremental weekly        *)
(* aggregator (src/src/analysis.py), the full-history backfill             *)
(* (src/src/history_backfill.py) and the three worksheets they share       *)
(* (activity sheet, Settings, Weekly_Report).                              *)
(*                                                                         *)
(* Number representation.  The code computes in binary floating point;     *)
(* the model computes in decimal fixed point with floor division:          *)
(*   date-time     hours since Monday 2024-01-08 00:00 (day = dt \div 24)  *)
(*   distance      1/100 km            duration      minutes               *)
(*   TRIMP, loads  1/10                                                    *)
(*   CTL/ATL/TSB   1/10000 (filter state), 1/10 once rounded for a row     *)
(*   VDOT          1/10                                                    *)
(* A worksheet cell is a tagged value: [num |-> n], [str |-> s].           *)
(***************************************************************************)
EXTENDS Integers, Sequences, FiniteSets, TLC

VARIABLES activities, settings, report, now, outcome

vars == <<activities, settings, report, now, outcome>>

-----------------------------------------------------------------------------
(* Arithmetic helpers *)

Abs(n) == IF n < 0 THEN -n ELSE n

Max2(a, b) == IF a >= b THEN a ELSE b

Min2(a, b) == IF a <= b THEN a ELSE b

\* floor(n / d) for d > 0 and any n
FloorDiv(n, d) == n \div d

\* Python round(): round n/d to the nearest integer, ties to even (d > 0)
RoundHalfEven(n, d) ==
    LET q == n \div d
        r == n % d
    IN  IF 2 * r < d THEN q
        ELSE IF 2 * r > d THEN q + 1
        ELSE IF q % 2 = 0 THEN q ELSE q + 1

RECURSIVE SumSeq(_)
SumSeq(s) == IF s = <<>> THEN 0 ELSE Head(s) + SumSeq(Tail(s))

RECURSIVE MaxSeq(_)
MaxSeq(s) == IF Len(s) = 1 THEN s[1] ELSE Max2(Head(s), MaxSeq(Tail(s)))

RECURSIVE SelectIdx(_, _, _)
\* the indices i >= from of s, ascending, for which keep[i] holds
SelectIdx(keep, from, n) ==
    IF from > n THEN <<>>
    ELSE (IF keep[from] THEN <<from>> ELSE <<>>) \o SelectIdx(keep, from + 1, n)

-----------------------------------------------------------------------------
(* Worksheet cells *)

Num(n) == [num |-> n]

Str(s) == [str |-> s]

Blank == Str("")

IsNum(c) == "num" \in DOMAIN c

\* pd.to_numeric(x, errors='coerce'): the number, or NaN for anything else
NaN == [nan |-> TRUE]

ToNumeric(c) == IF IsNum(c) THEN c ELSE NaN

IsNaN(c) == "nan" \in DOMAIN c

-----------------------------------------------------------------------------
(* Calendar *)

\* timedelta(days=7)
DaysPerWeek == 7

\* Timestamp.normalize() / resample('D') bin: the calendar day of a date-time
DayOf(dt) == dt \div 24

\* datetime.weekday(): Monday = 0 ... Sunday = 6 (day 0 is a Monday)
Weekday(dt) == DayOf(dt) % DaysPerWeek

Digit == <<"0", "1", "2", "3", "4", "5", "6", "7", "8", "9">>

\* strftime("%Y-%m-%d") of day d, day 0 being 2024-01-08 (for -7 <= d <= 23)
DateStr(d) == "2024-01-" \o Digit[((d + 8) \div 10) + 1] \o Digit[((d + 8) % 10) + 1]

-----------------------------------------------------------------------------
(* Sorting: DataFrame.sort_values('Date'), ascending, ties in stored order *)

RECURSIVE InsertByDate(_, _)
InsertByDate(r, s) ==
    IF s = <<>> THEN <<r>>
    ELSE IF r.Date < Head(s).Date THEN <<r>> \o s
    ELSE <<Head(s)>> \o InsertByDate(r, Tail(s))

RECURSIVE SortByDate(_)
SortByDate(s) ==
    IF s = <<>> THEN <<>>
    ELSE InsertByDate(s[Len(s)], SortByDate(SubSeq(s, 1, Len(s) - 1)))

-----------------------------------------------------------------------------
(* HR profiles: the Settings worksheet *)

NoSheet == [absent |-> TRUE]

IsSheet(w) == "absent" \notin DOMAIN w

FallbackMaxHR == 185

FallbackRestHR == 55

\* pd.Timestamp('2000-01-01'), in hours relative to 2024-01-08 (8773 days earlier)
FallbackDate == -210552

FallbackSettings ==
    <<[Date |-> FallbackDate, MaxHR |-> FallbackMaxHR, RestHR |-> FallbackRestHR]>>

\* a Settings row's Date cell parses iff it is a [date |-> dt] cell
DateParses(c) == "date" \in DOMAIN c

\* validate_settings: every Max HR and every Rest HR of the frame is numeric
validate_settings(rows) ==
    \A i \in 1..Len(rows) : IsNum(rows[i].MaxHR) /\ IsNum(rows[i].RestHR)

\* main, step 2: read Settings, drop rows whose date does not parse, sort,
\* validate; any failure substitutes the fallback frame
LoadSettings(sheet) ==
    IF ~IsSheet(sheet) THEN FallbackSettings
    ELSE IF sheet.rows = <<>> THEN FallbackSettings
    ELSE LET kept == SelectSeq(sheet.rows, LAMBDA r : DateParses(r.Date))
         IN  IF ~validate_settings(kept) THEN FallbackSettings
             ELSE SortByDate([i \in 1..Len(kept) |->
                     [Date |-> kept[i].Date.date,
                      MaxHR |-> kept[i].MaxHR.num,
                      RestHR |-> kept[i].RestHR.num]])

IndexError == [err |-> "IndexError"]

IsErr(x) == "err" \in DOMAIN x

HRPair(row) == [max |-> row.MaxHR, rest |-> row.RestHR]

\* get_hr_params taking the first row in effect instead of the last
get_hr_params_first(date, S) ==
    LET valid == SelectSeq(S, LAMBDA r : r.Date <= date)
    IN  IF valid = <<>>
        THEN (IF S = <<>> THEN IndexError ELSE HRPair(S[1]))
        ELSE HRPair(valid[1])

\* get_hr_params: the last row with Date <= date, else the first row
get_hr_params(date, S) ==
    LET valid == SelectSeq(S, LAMBDA r : r.Date <= date)
    IN  IF valid = <<>>
        THEN (IF S = <<>> THEN IndexError ELSE HRPair(S[1]))
        ELSE HRPair(valid[Len(valid)])

RECURSIVE AsofAdvance(_, _, _)
\* merge_asof's right pointer: the largest j' >= j with S[j'].Date <= date
AsofAdvance(date, S, j) ==
    IF j < Len(S) /\ S[j + 1].Date <= date THEN AsofAdvance(date, S, j + 1) ELSE j

RECURSIVE MergeAsof(_, _, _, _)
\* pd.merge_asof(dates, settings, direction='backward') over sorted inputs:
\* for each date the index of its matching settings row, 0 for no match
MergeAsof(dates, S, i, j) ==
    IF i > Len(dates) THEN <<>>
    ELSE LET j2 == AsofAdvance(dates[i], S, j)
         IN  <<j2>> \o MergeAsof(dates, S, i + 1, j2)

\* get_hr_params_vectorized: merge_asof, unmatched rows filled from the first row
get_hr_params_vectorized(dates, S0) ==
    LET S == SortByDate(S0)
        m == MergeAsof(dates, S, 1, 0)
    IN  IF \E i \in 1..Len(m) : m[i] = 0
        THEN (IF S = <<>> THEN IndexError
              ELSE [pairs |-> [i \in 1..Len(m) |-> HRPair(S[IF m[i] = 0 THEN 1 ELSE m[i]])]])
        ELSE [pairs |-> [i \in 1..Len(m) |-> HRPair(S[m[i]])]]

-----------------------------------------------------------------------------
(* Session load (TRIMP) *)

RECURSIVE ExpTerms(_, _, _)
\* sum of the Taylor terms x^k/k!, k = from..12, of exp(x); x and the result
\* in 1/10000
ExpTerms(x4, term, k) ==
    IF k > 12 THEN 0
    ELSE LET t == (term * x4) \div (k * 10000)
         IN  t + ExpTerms(x4, t, k + 1)

\* np.exp(x) for 0 <= x <= 1.92, in 1/10000
ExpFix(x4) == 10000 + ExpTerms(x4, 10000, 1)

\* (avg_hr - rest_hr) / (max_hr - rest_hr) for max_hr # rest_hr, in 1/10000
HrrRaw(avg, p) ==
    IF p.max > p.rest
    THEN ((avg - p.rest) * 10000) \div (p.max - p.rest)
    ELSE ((p.rest - avg) * 10000) \div (p.rest - p.max)

Clamp01(h4) == Max2(0, Min2(10000, h4))

\* round(duration * hrr * 0.64 * exp(1.92 * hrr), 1), in 1/10
TrimpOf(dur, hrr4) ==
    LET weight4 == (64 * ExpFix((19200 * hrr4) \div 10000)) \div 100
        a == (hrr4 * weight4) \div 1000
    IN  RoundHalfEven(dur * a, 10000)

\* analysis.py main, step 3, one row.  zd is what the scalar division by zero
\* does when max_hr = rest_hr: "raise" (ZeroDivisionError, caught: 0) or
\* "ieee" (inf/nan; max(0, min(1, nan)) is 1)
TrimpIncremental(rec, p, zd) ==
    LET avg == ToNumeric(rec.HR)
        dur == ToNumeric(rec.Dur)
    IN  IF IsNaN(avg) \/ IsNaN(dur) THEN 0
        ELSE IF dur.num = 0 \/ avg.num = 0 THEN 0
        ELSE IF p.max = p.rest
             THEN (IF zd = "raise" THEN 0
                   ELSE IF avg.num >= p.rest THEN TrimpOf(dur.num, 10000)
                   ELSE 0)
        ELSE TrimpOf(dur.num, Clamp01(HrrRaw(avg.num, p)))

\* history_backfill.py main, step 3, one row: NaN cells become 0, the
\* division is IEEE (inf clips to 1, nan stays nan and is filled with 0)
TrimpBackfill(rec, p) ==
    LET a == ToNumeric(rec.HR)
        d == ToNumeric(rec.Dur)
        avg == IF IsNaN(a) THEN 0 ELSE a.num
        dur == IF IsNaN(d) THEN 0 ELSE d.num
    IN  IF p.max = p.rest
        THEN (IF avg > p.rest THEN TrimpOf(dur, 10000) ELSE 0)
        ELSE TrimpOf(dur, Clamp01(HrrRaw(avg, p)))

-----------------------------------------------------------------------------
(* Daily load series and the fitness-fatigue filter *)

\* a daily series without the resampling: one entry per row of the frame
DailyLoad_NoResample(frame, trimp) == trimp

\* df.set_index('Date').resample('D')['TRIMP'].sum() over the date-sorted
\* frame: one bin per calendar day from the first row's day to the last
\* row's day, each the sum of the TRIMP of the rows falling on that day
DailyLoad(frame, trimp) ==
    LET first == DayOf(frame[1].Date)
        last  == DayOf(frame[Len(frame)].Date)
    IN  [k \in 1..(last - first + 1) |->
            SumSeq([i \in 1..Len(frame) |->
                IF DayOf(frame[i].Date) = first + k - 1 THEN trimp[i] ELSE 0])]

RECURSIVE Ewm(_, _, _)
\* Series.ewm(span, adjust=False).mean() up to index n, in 1/10000:
\* e[1] = x[1], e[i] = alpha * x[i] + (1 - alpha) * e[i-1], alpha = 2/(span+1)
Ewm(x, span, n) ==
    IF n = 1 THEN x[1] * 1000
    ELSE (2 * x[n] * 1000 + (span - 1) * Ewm(x, span, n - 1)) \div (span + 1)

CtlSpan == 42

AtlSpan == 7

\* round(x, 1) of a filter value: 1/10000 to 1/10
Round1(x4) == RoundHalfEven(x4, 1000)

\* the status label with both thresholds inclusive (>= 10, >= -10)
StatusOf_Inclusive(tsb4) ==
    IF tsb4 >= 100000 THEN "recovered"
    ELSE IF tsb4 >= -100000 THEN "moderate" ELSE "fatigued"

\* the status label of a Form value (1/10000): "recovered" stands for the
\* label "恢复", "moderate" for "适中" and "fatigued" for "疲劳"
StatusOf(tsb4) ==
    IF tsb4 > 100000 THEN "recovered"
    ELSE IF tsb4 > -100000 THEN "moderate" ELSE "fatigued"

-----------------------------------------------------------------------------
(* Performance estimator (VDOT) *)

\* (5 / distance_km) ** 1.06 in 1/10000, tabulated for the distances
\* (1/100 km) the model's records take
RiegelFactor == [d \in {300, 500, 1000, 2000} |->
    CASE d = 300 -> 17185 [] d = 500 -> 10000 [] d = 1000 -> 4796 [] d = 2000 -> 2300]

\* calculate_run_vdot, in 1/10
calculate_run_vdot(dist100, dur) ==
    IF dist100 < 300 \/ dur <= 0 THEN 0
    ELSE LET v100 == 500000000 \div Max2(1, (dur * RiegelFactor[dist100]) \div 10)
             vdot4 == -46000 + (18226 * v100) \div 1000
                      + (((v100 * v100) \div 10000) * 104) \div 100
         IN  RoundHalfEven(vdot4, 1000)

WindowDays == 42

\* float(cell): a number, or ValueError for a non-numeric cell
FloatOk(c) == IsNum(c)

\* get_current_vdot with the end of the window left out (Date < end_date)
get_current_vdot_open(frame, end_date, window_days) ==
    LET start_date == end_date - window_days * 24
        score(r) == IF FloatOk(r.Dist) /\ FloatOk(r.Dur)
                    THEN calculate_run_vdot(r.Dist.num, r.Dur.num) ELSE 0
        inWin == SelectSeq(frame, LAMBDA r : r.Date >= start_date /\ r.Date < end_date)
        vals == SelectSeq([i \in 1..Len(inWin) |-> score(inWin[i])], LAMBDA v : v > 0)
    IN  IF vals = <<>> THEN 0 ELSE MaxSeq(vals)

\* get_current_vdot over the frame: the best positive score among the rows
\* with end_date - window_days <= Date <= end_date, 0 when there is none
get_current_vdot(frame, end_date, window_days) ==
    LET start_date == end_date - window_days * 24
        score(r) == IF FloatOk(r.Dist) /\ FloatOk(r.Dur)
                    THEN calculate_run_vdot(r.Dist.num, r.Dur.num) ELSE 0
        inWin == SelectSeq(frame, LAMBDA r : r.Date >= start_date /\ r.Date <= end_date)
        vals == SelectSeq([i \in 1..Len(inWin) |-> score(inWin[i])], LAMBDA v : v > 0)
    IN  IF inWin = <<>> THEN 0
        ELSE IF vals = <<>> THEN 0
        ELSE MaxSeq(vals)

-----------------------------------------------------------------------------
(* Pace strings: a string is a sequence of one-character strings *)

Chars(s) == [chars |-> s]

IsString(c) == "chars" \in DOMAIN c

DigitVal(ch) == CHOOSE v \in 0..9 : Digit[v + 1] = ch

IsDigit(ch) == \E v \in 0..9 : Digit[v + 1] = ch

RECURSIVE DigitsVal(_)
DigitsVal(s) ==
    IF s = <<>> THEN 0 ELSE DigitsVal(SubSeq(s, 1, Len(s) - 1)) * 10 + DigitVal(s[Len(s)])

\* int(s) succeeds on a non-empty run of decimal digits
IntOk(s) == s # <<>> /\ \A i \in 1..Len(s) : IsDigit(s[i])

RECURSIVE IndexOf(_, _, _)
\* index of the first ch in s at or after from, 0 if none
IndexOf(s, ch, from) ==
    IF from > Len(s) THEN 0
    ELSE IF s[from] = ch THEN from ELSE IndexOf(s, ch, from + 1)

\* s.split("'")[0] and s.split("'")[1]; the second needs an apostrophe
SplitFirst(s) ==
    LET a == IndexOf(s, "'", 1)
    IN  IF a = 0 THEN s ELSE SubSeq(s, 1, a - 1)

SplitSecond(s) ==
    LET a == IndexOf(s, "'", 1)
        b == IndexOf(s, "'", a + 1)
    IN  IF b = 0 THEN SubSeq(s, a + 1, Len(s)) ELSE SubSeq(s, a + 1, b - 1)

HasApostrophe(s) == IndexOf(s, "'", 1) # 0

\* .replace('"', '')
DropQuotes(s) == SelectSeq(s, LAMBDA ch : ch # "\"")

\* the try body of parse_pace succeeds
PaceParses(c) ==
    /\ IsString(c)
    /\ HasApostrophe(c.chars)
    /\ IntOk(SplitFirst(c.chars))
    /\ IntOk(DropQuotes(SplitSecond(c.chars)))

PaceSeconds(c) ==
    DigitsVal(SplitFirst(c.chars)) * 60 + DigitsVal(DropQuotes(SplitSecond(c.chars)))

\* analysis.py parse_pace: seconds, 0 for anything that does not parse
parse_pace(c) == IF PaceParses(c) THEN PaceSeconds(c) ELSE 0

RECURSIVE NumChars(_)
\* str(n) for n >= 0
NumChars(n) ==
    IF n < 10 THEN <<Digit[n + 1]>> ELSE NumChars(n \div 10) \o <<Digit[(n % 10) + 1]>>

\* f"{int(avg // 60)}'{int(avg % 60):02d}\"" for avg = total / count > 0,
\* else "-"
PaceFmt(total, count) ==
    IF count = 0 \/ total <= 0 THEN Chars(<<"-">>)
    ELSE LET sec == (total \div count) % 60
         IN  Chars(NumChars(total \div (60 * count)) \o <<"'">>
                   \o (IF sec < 10 THEN <<"0">> ELSE <<>>) \o NumChars(sec) \o <<"\"">>)

-----------------------------------------------------------------------------
(* Aerobic decoupling *)

None == [none |-> TRUE]

IsNone(x) == "none" \in DOMAIN x

RECURSIVE Pow10(_)
Pow10(k) == IF k = 0 THEN 1 ELSE 10 * Pow10(k - 1)

RECURSIVE DivDigits(_, _, _)
\* floor(n * 10^k / d) for n >= 0, d > 0, without forming n * 10^k
DivDigits(n, d, k) ==
    IF k = 0 THEN n \div d
    ELSE (n \div d) * Pow10(k) + DivDigits((n % d) * 10, d, k - 1)

\* parse_pace_to_speed: 1000 / seconds in 1/10000 m/s, 0 when the pace does
\* not parse or is 0 seconds
parse_pace_to_speed(c) ==
    IF ~PaceParses(c) THEN 0
    ELSE IF PaceSeconds(c) = 0 THEN 0
    ELSE 10000000 \div PaceSeconds(c)

\* calculate_decoupling(splits): None, or round((ef1 - ef2) / ef1 * 100, 2)
\* in 1/100 percent, where ef = mean speed / mean hr of a half (the means'
\* divisors cancel: ef = sum of speeds / sum of hr).  A first half of speed 0
\* divides by zero in floating point: nan or inf
calculate_decoupling(splits) ==
    IF Len(splits) < 4 THEN None
    ELSE LET half == Len(splits) \div 2
             v(i) == parse_pace_to_speed(splits[i].pace)
             S1 == SumSeq([i \in 1..half |-> v(i)])
             H1 == SumSeq([i \in 1..half |-> splits[i].hr])
             S2 == SumSeq([i \in 1..(Len(splits) - half) |-> v(half + i)])
             H2 == SumSeq([i \in 1..(Len(splits) - half) |-> splits[half + i].hr])
         IN  IF H1 = 0 \/ H2 = 0 THEN None
             ELSE IF S1 = 0 THEN [special |-> IF S2 = 0 THEN "nan" ELSE "-inf"]
             ELSE [val |-> RoundHalfEven(1000000 - DivDigits(S2 * H1, S1 * H2, 6), 100)]

-----------------------------------------------------------------------------
(* Weekly_Report rows *)

\* analysis.py: the header written with a new Weekly_Report
AnalysisHeader ==
    <<Str("Start Date"), Str("End Date"), Str("Distance (km)"), Str("Runs"),
      Str("Avg Pace"), Str("Weekly Load"), Str("Fitness (CTL)"), Str("Form (TSB)"),
      Str("VDOT"), Str("LSD Decouple"), Str("Status")>>

\* history_backfill.py: headers
BackfillHeader ==
    <<Str("Week Start"), Str("Week End"), Str("Distance (km)"), Str("Runs"),
      Str("Avg Pace"), Str("Weekly Load"), Str("Fitness (CTL)"), Str("Form (TSB)"),
      Str("VDOT"), Str("Status")>>

\* f"{dc}%"
Pct(dc) == [pct |-> dc]

NoRun ==
    [run |-> "none", status |-> "none", at |-> 0, rows |-> <<>>, frame |-> <<>>,
     profiles |-> <<>>, hr |-> <<>>, trimp |-> <<>>, daily |-> <<>>, first |-> 0]

Aborted(run, today, frame, S) ==
    [run |-> run, status |-> "aborted", at |-> today, rows |-> <<>>, frame |-> frame,
     profiles |-> S, hr |-> <<>>, trimp |-> <<>>, daily |-> <<>>, first |-> 0]

AllNumeric(recs) == \A i \in 1..Len(recs) : IsNum(recs[i].Dist)

DistSum(recs) == SumSeq([i \in 1..Len(recs) |-> recs[i].Dist.num])

RECURSIVE IdxMax(_, _)
\* Series.idxmax(): the position of the first largest value among 1..n
IdxMax(x, n) ==
    IF n = 1 THEN 1
    ELSE LET m == IdxMax(x, n - 1) IN IF x[n] > x[m] THEN n ELSE m

\* analysis.py main: the LSD decoupling cell of the week
LongestRunDecoupling(weekly) ==
    IF weekly = <<>> THEN Str("-")
    ELSE IF \E i \in 1..Len(weekly) : ~IsNum(weekly[i].Dur) THEN Str("-")
    ELSE LET longest_run == weekly[IdxMax([i \in 1..Len(weekly) |-> weekly[i].Dur.num],
                                          Len(weekly))]
         IN  IF longest_run.Dur.num > 30
             THEN LET dc == calculate_decoupling(longest_run.Splits)
                  IN  IF IsNone(dc) THEN Str("-") ELSE Pct(dc)
             ELSE Str("-")

\* analysis.py main: this_monday = today - timedelta(days=today.weekday());
\* the time of day of today is kept
ThisMonday(today) == today - Weekday(today) * 24

LastMonday(today) == ThisMonday(today) - DaysPerWeek * 24

\* analysis.py main, steps 1-4: what one run computes from the sheets at
\* time today.  status "returned": the read failed and main returned;
\* "aborted": an exception left main; "ok": report_row was built
AnalysisCompute(acts, sett, today, zd) ==
    IF acts = <<>> THEN [NoRun EXCEPT !.run = "analysis", !.status = "returned", !.at = today]
    ELSE
    LET frame == SortByDate(acts)
        S == LoadSettings(sett)
        hr == [i \in 1..Len(frame) |-> get_hr_params(frame[i].Date, S)]
    IN  IF \E i \in 1..Len(frame) : IsErr(hr[i]) THEN Aborted("analysis", today, frame, S)
        ELSE
        LET trimp == [i \in 1..Len(frame) |-> TrimpIncremental(frame[i], hr[i], zd)]
            keep == [i \in 1..Len(frame) |->
                        frame[i].Date >= LastMonday(today) /\ frame[i].Date < ThisMonday(today)]
            widx == SelectIdx(keep, 1, Len(frame))
            weekly_data == [k \in 1..Len(widx) |-> frame[widx[k]]]
            daily_load == DailyLoad(frame, trimp)
            current_ctl == Ewm(daily_load, CtlSpan, Len(daily_load))
            current_atl == Ewm(daily_load, AtlSpan, Len(daily_load))
            current_tsb == current_ctl - current_atl
            current_vdot == get_current_vdot(frame, ThisMonday(today), WindowDays)
            total_sec == SumSeq([k \in 1..Len(weekly_data) |-> parse_pace(weekly_data[k].Pace)])
            report_row ==
                <<Str(DateStr(DayOf(LastMonday(today)))),
                  Str(DateStr(DayOf(ThisMonday(today)))),
                  Num(DistSum(weekly_data)),
                  Num(Len(weekly_data)),
                  PaceFmt(total_sec, Len(weekly_data)),
                  Num(RoundHalfEven(SumSeq([k \in 1..Len(widx) |-> trimp[widx[k]]]), 10)),
                  Num(Round1(current_ctl)),
                  Num(Round1(current_tsb)),
                  Num(current_vdot),
                  LongestRunDecoupling(weekly_data),
                  Str(StatusOf(current_tsb))>>
        IN  IF ~AllNumeric(weekly_data) THEN Aborted("analysis", today, frame, S)
            ELSE [run |-> "analysis", status |-> "ok", at |-> today, rows |-> <<report_row>>,
                  frame |-> frame, profiles |-> S, hr |-> hr, trimp |-> trimp,
                  daily |-> daily_load, first |-> DayOf(frame[1].Date)]

\* is_duplicate comparing the End Date column instead of the Start Date column
IsDuplicate_EndDate(existing, report_row) ==
    \E i \in 1..Len(existing) : Len(existing[i]) > 0 /\ existing[i][2] = report_row[2]

\* analysis.py main, step 5: is_duplicate
IsDuplicate(existing, report_row) ==
    \E i \in 1..Len(existing) : Len(existing[i]) > 0 /\ existing[i][1] = report_row[1]

\* analysis.py main, step 5: the Weekly_Report sheet after the write
AnalysisWrite(rep, report_row) ==
    LET existing == IF IsSheet(rep) THEN rep.rows ELSE <<AnalysisHeader>>
    IN  IF IsDuplicate(existing, report_row) THEN [rows |-> existing]
        ELSE [rows |-> Append(existing, report_row)]

-----------------------------------------------------------------------------
(* history_backfill.py main *)

\* resample('W-SUN') bin of a date-time: weeks run Monday 00:00 to Sunday
\* 24:00 and are labelled by their Sunday
WeekOf(dt) == DayOf(dt) \div DaysPerWeek

SundayOf(w) == w * DaysPerWeek + (DaysPerWeek - 1)

\* avg_pace_calc: total seconds and count of the paces that parse
BackfillPaceTotal(recs) ==
    SumSeq([i \in 1..Len(recs) |-> IF PaceParses(recs[i].Pace) THEN PaceSeconds(recs[i].Pace) ELSE 0])

BackfillPaceCount(recs) ==
    SumSeq([i \in 1..Len(recs) |-> IF PaceParses(recs[i].Pace) THEN 1 ELSE 0])

\* df['Duration (min)'] = pd.to_numeric(..., errors='coerce').fillna(0), and
\* the same for 'Avg HR'
CoerceRow(r) ==
    [r EXCEPT !.Dur = IF IsNum(r.Dur) THEN r.Dur ELSE Num(0),
              !.HR = IF IsNum(r.HR) THEN r.HR ELSE Num(0)]

\* the report row of week w
BackfillRow(frame, trimp, daily, first, w) ==
    LET keep == [i \in 1..Len(frame) |-> WeekOf(frame[i].Date) = w]
        idx == SelectIdx(keep, 1, Len(frame))
        recs == [k \in 1..Len(idx) |-> frame[idx[k]]]
        lastDay == first + Len(daily) - 1
        \* daily_stats.resample('W-SUN').last(): the last day of the week
        \* that the daily table holds
        n == Min2(SundayOf(w), lastDay) - first + 1
        ctl == Ewm(daily, CtlSpan, n)
        tsb == ctl - Ewm(daily, AtlSpan, n)
        week_end == SundayOf(w) * 24
    IN  [skip |-> DistSum(recs) = 0 /\ ctl < 10000,
         row |-> <<Str(DateStr(SundayOf(w) - 6)),
                   Str(DateStr(SundayOf(w))),
                   Num(DistSum(recs)),
                   Num(Len(recs)),
                   PaceFmt(BackfillPaceTotal(recs), BackfillPaceCount(recs)),
                   Num(RoundHalfEven(SumSeq([k \in 1..Len(idx) |-> trimp[idx[k]]]), 10)),
                   Num(Round1(ctl)),
                   Num(Round1(tsb)),
                   Num(get_current_vdot(frame, week_end, WindowDays)),
                   Str(StatusOf(tsb))>>]

RECURSIVE BackfillRows(_, _, _, _, _, _)
\* rows_to_write for the weeks w..lastWeek, in order
BackfillRows(frame, trimp, daily, first, w, lastWeek) ==
    IF w > lastWeek THEN <<>>
    ELSE LET r == BackfillRow(frame, trimp, daily, first, w)
         IN  (IF r.skip THEN <<>> ELSE <<r.row>>)
             \o BackfillRows(frame, trimp, daily, first, w + 1, lastWeek)

\* history_backfill.py main, steps 1-6
BackfillCompute(acts, sett, today) ==
    IF acts = <<>> THEN Aborted("backfill", today, <<>>, <<>>)
    ELSE
    LET sorted == SortByDate(acts)
        S == LoadSettings(sett)
        looked == get_hr_params_vectorized([i \in 1..Len(sorted) |-> sorted[i].Date], S)
        hr == looked.pairs
    IN  IF IsErr(looked) THEN Aborted("backfill", today, sorted, S)
        ELSE
        LET frame == [i \in 1..Len(sorted) |-> CoerceRow(sorted[i])]
            trimp == [i \in 1..Len(frame) |-> TrimpBackfill(frame[i], hr[i])]
            daily_trimp == DailyLoad(frame, trimp)
            first == DayOf(frame[1].Date)
        IN  IF ~AllNumeric(frame) THEN Aborted("backfill", today, sorted, S)
            ELSE [run |-> "backfill", status |-> "ok", at |-> today,
                  rows |-> BackfillRows(frame, trimp, daily_trimp, first,
                                        WeekOf(frame[1].Date), WeekOf(frame[Len(frame)].Date)),
                  frame |-> frame, profiles |-> S, hr |-> hr, trimp |-> trimp,
                  daily |-> daily_trimp, first |-> first]

\* history_backfill.py main, step 7: clear the sheet (or create it) and write
\* the header and every row
BackfillWrite(rows_to_write) == [rows |-> <<BackfillHeader>> \o rows_to_write]

-----------------------------------------------------------------------------
(* The store and the runs *)

\* a long run with four kilometre splits, and a short jog without heart rate
LongRun ==
    [Dist |-> Num(1000), Dur |-> Num(50), HR |-> Num(150),
     Pace |-> Chars(<<"5", "'", "0", "0", "\"">>),
     Splits |-> [i \in 1..4 |->
                   [pace |-> Chars(<<"5", "'", "0", IF i > 2 THEN "6" ELSE "0", "\"">>),
                    hr |-> 150 + i]]]

ShortJog ==
    [Dist |-> Num(200), Dur |-> Num(15), HR |-> Num(0),
     Pace |-> Chars(<<"7", "'", "3", "0", "\"">>),
     Splits |-> <<>>]

Kinds == {LongRun, ShortJog}

Activity(id, date, k) ==
    [id |-> id, Date |-> date, Dist |-> k.Dist, Dur |-> k.Dur, HR |-> k.HR,
     Pace |-> k.Pace, Splits |-> k.Splits]

ProfileRow(date, max, rest) == [Date |-> [date |-> date], MaxHR |-> Num(max), RestHR |-> Num(rest)]

\* a Settings sheet whose profile changes on the second Monday
TwoProfiles == [rows |-> <<ProfileRow(0, 180, 50), ProfileRow(168, 185, 55)>>]

MaxActs == 2

MaxDay == 8

RECURSIVE Reverse(_)
Reverse(s) == IF s = <<>> THEN <<>> ELSE Reverse(Tail(s)) \o <<Head(s)>>

\* the clock moves to the next of the two daily moments, 07:00 and 20:00
Tick ==
    /\ DayOf(now) < MaxDay \/ now % 24 = 7
    /\ now' = IF now % 24 = 7 THEN now + 13 ELSE now + 11
    /\ outcome' = NoRun
    /\ UNCHANGED <<activities, settings, report>>

\* the athlete trains in the morning of a Monday, Wednesday or Sunday
TrainDays == {0, 2, 6}

\* the weekly job is scheduled for Monday ("周一早上跑"), at either moment of
\* the day, and may be run again by hand the day after
AnalysisDays == {0, 1}

\* main.py main: a run that has just ended is appended to the activity
\* sheet, and the sheet is sorted by date, newest first
Ingest ==
    /\ Len(activities) < MaxActs
    /\ Weekday(now) \in TrainDays /\ now % 24 = 7
    /\ \A i \in 1..Len(activities) : activities[i].Date # now
    /\ \E k \in Kinds :
         activities' = Reverse(SortByDate(
                          Append(activities, Activity(Len(activities) + 1, now, k))))
    /\ outcome' = NoRun
    /\ UNCHANGED <<settings, report, now>>

ZeroDivOutcomes == {"raise", "ieee"}

\* analysis.py main
RunAnalysis ==
    /\ Weekday(now) \in AnalysisDays
    /\ \E zd \in ZeroDivOutcomes :
        LET o == AnalysisCompute(activities, settings, now, zd)
        IN  /\ IF o.status = "ok"
               THEN /\ report' = AnalysisWrite(report, o.rows[1])
                    /\ outcome' = [o EXCEPT !.status =
                          IF IsDuplicate(IF IsSheet(report) THEN report.rows
                                         ELSE <<AnalysisHeader>>, o.rows[1])
                          THEN "skipped" ELSE "written"]
               ELSE /\ report' = report
                    /\ outcome' = o
            /\ UNCHANGED <<activities, settings, now>>

\* history_backfill.py main
RunBackfill ==
    LET o == BackfillCompute(activities, settings, now)
    IN  /\ IF o.status = "ok"
           THEN /\ report' = BackfillWrite(o.rows)
                /\ outcome' = [o EXCEPT !.status = "written"]
           ELSE /\ report' = report
                /\ outcome' = o
        /\ UNCHANGED <<activities, settings, now>>

Init ==
    /\ activities = <<>>
    /\ settings = TwoProfiles
    /\ report = NoSheet
    /\ now = 7
    /\ outcome = NoRun

Next == Tick \/ Ingest \/ RunAnalysis \/ RunBackfill

Spec == Init /\ [][Next]_vars

-----------------------------------------------------------------------------
(* Single runs over drawn inputs: the sheets are drawn in the initial state *)
(* and the two aggregators run over them                                   *)

MaxRecs == 2

MaxProfiles == 2

MaxDailyRecs == 3

\* the activity sheets of 1..n rows, in any stored order, whose rows take
\* their date from dates and their fields from shapes
Sheets(dates, shapes, n) ==
    LET R == dates \X shapes
    IN  {[i \in 1..Len(f) |-> Activity(i, f[i][1], f[i][2])] :
            f \in UNION {[1..m -> R] : m \in 1..n}}

\* Monday 07:00, Monday 20:00 and Sunday 20:00 of the first week
RecDates == {7, 20, 164}

With(k, field, v) ==
    CASE field = "HR" -> [k EXCEPT !.HR = v]
      [] field = "Dur" -> [k EXCEPT !.Dur = v]
      [] field = "Dist" -> [k EXCEPT !.Dist = v]

\* records with missing, zero, negative or non-numeric fields
MessyShapes ==
    {LongRun,
     With(LongRun, "HR", Num(0)), With(LongRun, "HR", Blank), With(LongRun, "HR", Num(40)),
     With(LongRun, "Dur", Num(0)), With(LongRun, "Dur", Num(-10)),
     With(LongRun, "Dur", Str("n/a")), With(LongRun, "Dist", Blank)}

OneProfile == [rows |-> <<ProfileRow(0, 180, 50)>>]

\* Settings sheets: absent, empty, valid, a non-numeric Max HR, max = rest,
\* max < rest, a valid row followed by a degenerate one, and dates that do
\* not parse
MessySettings ==
    {NoSheet, [rows |-> <<>>], OneProfile,
     [rows |-> <<[Date |-> [date |-> 0], MaxHR |-> Str("n/a"), RestHR |-> Num(50)]>>],
     [rows |-> <<ProfileRow(0, 150, 150)>>],
     [rows |-> <<ProfileRow(0, 55, 185)>>],
     [rows |-> <<ProfileRow(0, 180, 50), ProfileRow(72, 60, 60)>>],
     [rows |-> <<[Date |-> Str("n/a"), MaxHR |-> Num(180), RestHR |-> Num(50)]>>]}

\* the Monday after the first week, 07:00 and 20:00
RunMoments == {175, 188}

InitRun ==
    /\ activities \in Sheets({7, 164}, MessyShapes, MaxRecs)
    /\ settings \in MessySettings
    /\ report = NoSheet
    /\ now \in RunMoments
    /\ outcome = NoRun

NextRun == RunAnalysis \/ RunBackfill

SpecRun == InitRun /\ [][NextRun]_vars

\* Settings sheets of 1..MaxProfiles valid rows in any stored order, two of
\* the rows sharing an effective date
ProfileSheets ==
    LET R == {ProfileRow(0, 180, 50), ProfileRow(72, 185, 55), ProfileRow(72, 170, 45),
              ProfileRow(168, 190, 60)}
    IN  {[rows |-> f] : f \in UNION {[1..m -> R] : m \in 1..MaxProfiles}}

InitResolve ==
    /\ activities \in Sheets({7, 79, 175}, {LongRun}, MaxRecs)
    /\ settings \in ProfileSheets
    /\ report = NoSheet
    /\ now = 188
    /\ outcome = NoRun

SpecResolve == InitResolve /\ [][NextRun]_vars

InitDaily ==
    /\ activities \in Sheets(RecDates, Kinds, MaxDailyRecs)
    /\ settings = OneProfile
    /\ report = NoSheet
    /\ now = 188
    /\ outcome = NoRun

SpecDaily == InitDaily /\ [][NextRun]_vars

-----------------------------------------------------------------------------
(* Properties *)

Ran == outcome.status \in {"written", "skipped"}

DataRows == IF IsSheet(report) THEN report.rows ELSE <<>>

RowsKeyed(key) == {i \in 1..Len(DataRows) : DataRows[i][1] = key}

\* C1: no two rows of Weekly_Report carry the same week-start date, and after
\* a run every week it reported is keyed by exactly one row
C1_UniqueWeekStart ==
    /\ \A i, j \in 1..Len(DataRows) : i # j => DataRows[i][1] # DataRows[j][1]
    /\ Ran => \A k \in 1..Len(outcome.rows) : Cardinality(RowsKeyed(outcome.rows[k][1])) = 1

\* C1 witness: an incremental run found its week already reported by a
\* backfill and skipped the write, the sheet holding several weeks
C1_Witness ==
    /\ outcome.run = "analysis" /\ outcome.status = "skipped"
    /\ DataRows[1] = BackfillHeader
    /\ Len(DataRows) >= 3
    /\ \E i \in RowsKeyed(outcome.rows[1][1]) : Len(DataRows[i]) = Len(BackfillHeader)

\* the day of the Monday a report row is keyed by
MondayOfRow(row) == CHOOSE d \in -7..21 : d % DaysPerWeek = 0 /\ DateStr(d) = row[1].str

RECURSIVE SumOver(_, _)
SumOver(f, S) ==
    IF S = {} THEN 0 ELSE LET x == CHOOSE x \in S : TRUE IN f[x] + SumOver(f, S \ {x})

FrameIdx == 1..Len(outcome.frame)

FirstDay == CHOOSE d \in {DayOf(outcome.frame[i].Date) : i \in FrameIdx} :
                \A i \in FrameIdx : d <= DayOf(outcome.frame[i].Date)

LastDay == CHOOSE d \in {DayOf(outcome.frame[i].Date) : i \in FrameIdx} :
               \A i \in FrameIdx : d >= DayOf(outcome.frame[i].Date)

\* the summed training impulse of calendar day d
LoadOn(d) == SumOver(outcome.trimp, {i \in FrameIdx : DayOf(outcome.frame[i].Date) = d})

\* the gap-free daily series from the first activity date to endDay
SeriesTo(endDay) == [k \in 1..(endDay - FirstDay + 1) |-> LoadOn(FirstDay + k - 1)]

FitnessAt(endDay) == Ewm(SeriesTo(endDay), CtlSpan, endDay - FirstDay + 1)

FormAt(endDay) == FitnessAt(endDay) - Ewm(SeriesTo(endDay), AtlSpan, endDay - FirstDay + 1)

\* C2: the Fitness and Form of a written row are the filter state at the
\* week's Sunday, the filter having run over the gap-free series from the
\* first activity date up to and including that Sunday (stated for the weeks
\* that are over when the run takes place)
C2_FitnessFormAtWeekEnd ==
    Ran => \A k \in 1..Len(outcome.rows) :
        LET row == outcome.rows[k]
            sunday == MondayOfRow(row) + 6
        IN  (sunday >= FirstDay /\ (sunday + 1) * 24 <= outcome.at) =>
                /\ row[7] = Num(Round1(FitnessAt(sunday)))
                /\ row[8] = Num(Round1(FormAt(sunday)))

\* C3: the Fitness and Form the incremental run reports for a week equal,
\* within one unit of the last written decimal, those the backfill reports
\* for the same week-start over the same sheets
C3_BatchEqualsIncremental ==
    (Ran /\ outcome.run = "analysis") =>
        LET b == BackfillCompute(activities, settings, outcome.at)
            row == outcome.rows[1]
        IN  b.status = "ok" =>
                \A j \in 1..Len(b.rows) : b.rows[j][1] = row[1] =>
                    /\ Abs(b.rows[j][7].num - row[7].num) <= 1
                    /\ Abs(b.rows[j][8].num - row[8].num) <= 1

\* C5: a written row's run count, distance and load are those of exactly
\* the records dated from Monday 00:00 of its week to the next Monday 00:00
C5_CalendarWeek ==
    Ran => \A k \in 1..Len(outcome.rows) :
        LET row == outcome.rows[k]
            monday == MondayOfRow(row)
            inWeek == {i \in FrameIdx : /\ outcome.frame[i].Date >= monday * 24
                                        /\ outcome.frame[i].Date < (monday + DaysPerWeek) * 24}
        IN  /\ row[4] = Num(Cardinality(inWeek))
            /\ row[3] = Num(SumOver([i \in FrameIdx |-> outcome.frame[i].Dist.num], inWeek))
            /\ row[6] = Num(RoundHalfEven(SumOver(outcome.trimp, inWeek), 10))

Qualifies(r) == IsNum(r.Dist) /\ IsNum(r.Dur) /\ r.Dist.num >= 300 /\ r.Dur.num > 0

\* C10: when no record of the sheet (hence none in any window) qualifies for
\* performance scoring, the written performance-score cell is not the number
\* 0; and when no record has the four splits decoupling needs, the row of an
\* incremental run holds "-" in its decoupling cell
C10_NotComputableMarker ==
    Ran => \A k \in 1..Len(outcome.rows) :
        LET row == outcome.rows[k]
        IN  /\ (\A i \in FrameIdx : ~Qualifies(outcome.frame[i])) => row[9] # Num(0)
            /\ (outcome.run = "analysis" /\ \A i \in FrameIdx : Len(outcome.frame[i].Splits) < 4)
                   => row[10] = Str("-")

\* the sheet row a frame row was read from
SourceRow(i) == CHOOSE a \in {activities[j] : j \in 1..Len(activities)} :
                    a.id = outcome.frame[i].id

MinActDay == CHOOSE d \in {DayOf(activities[j].Date) : j \in 1..Len(activities)} :
                 \A j \in 1..Len(activities) : d <= DayOf(activities[j].Date)

MaxActDay == CHOOSE d \in {DayOf(activities[j].Date) : j \in 1..Len(activities)} :
                 \A j \in 1..Len(activities) : d >= DayOf(activities[j].Date)

\* the training impulse the run gave the sheet row of identifier id
TrimpOfId(id) == outcome.trimp[CHOOSE i \in FrameIdx : outcome.frame[i].id = id]

\* C4: the daily series of a run has one entry for every calendar date from
\* the first to the last activity date of the sheet, in date order, each the
\* sum of the training impulse of that date's activities (0 for none), and
\* the Fitness of the run's last row is the filter's value over this series
C4_GapFreeDailySeries ==
    Ran =>
        /\ outcome.first = MinActDay
        /\ Len(outcome.daily) = MaxActDay - MinActDay + 1
        /\ \A k \in 1..Len(outcome.daily) :
              outcome.daily[k] =
                  SumOver([j \in 1..Len(activities) |-> TrimpOfId(activities[j].id)],
                          {j \in 1..Len(activities) :
                               DayOf(activities[j].Date) = MinActDay + k - 1})
        /\ outcome.rows # <<>> =>
              outcome.rows[Len(outcome.rows)][7] =
                  Num(Round1(Ewm(outcome.daily, CtlSpan, Len(outcome.daily))))

\* C4 witness: a run over a sheet stored newest first, with two activities
\* on one day and a gap of days without any
C4_Witness ==
    /\ Ran
    /\ Len(activities) >= 2
    /\ activities[1].Date > activities[2].Date
    /\ \E i, j \in 1..Len(activities) :
          /\ i # j /\ DayOf(activities[i].Date) = DayOf(activities[j].Date)
          /\ TrimpOfId(activities[i].id) > 0 /\ TrimpOfId(activities[j].id) > 0
    /\ \E k \in 1..Len(outcome.daily) : outcome.daily[k] = 0

SheetRows == IF IsSheet(settings) THEN settings.rows ELSE <<>>

\* the Settings sheet holds a profile with max HR <= rest HR
HasDegenerate ==
    \E i \in 1..Len(SheetRows) :
        /\ IsNum(SheetRows[i].MaxHR) /\ IsNum(SheetRows[i].RestHR)
        /\ SheetRows[i].MaxHR.num <= SheetRows[i].RestHR.num

\* C6: no record is scored with a profile of max HR <= rest HR, and a sheet
\* holding such a profile makes every record be scored with the fallback
C6_DegenerateNeverApplied ==
    Ran =>
        /\ \A i \in FrameIdx : outcome.hr[i].max > outcome.hr[i].rest
        /\ HasDegenerate =>
              \A i \in FrameIdx : outcome.hr[i] = [max |-> FallbackMaxHR, rest |-> FallbackRestHR]

\* C8: no training impulse is negative, and a record of duration <= 0 or of
\* average heart rate 0 or blank scores exactly 0, in either run (stated for
\* the runs whose profiles all have max HR > rest HR)
C8_TrimpNonNegative ==
    (Ran /\ \A i \in FrameIdx : outcome.hr[i].max > outcome.hr[i].rest) => \A i \in FrameIdx :
        /\ outcome.trimp[i] >= 0
        /\ (IsNum(SourceRow(i).Dur) /\ SourceRow(i).Dur.num <= 0) => outcome.trimp[i] = 0
        /\ (SourceRow(i).HR = Num(0) \/ SourceRow(i).HR = Blank) => outcome.trimp[i] = 0

\* C9: a run over any records and any Settings sheet completes and produces
\* its report row(s)
C9_NothingFatal ==
    outcome.run # "none" => (Ran /\ outcome.rows # <<>>)

\* the rows of the sorted profile sequence in effect at date: those of the
\* latest effective date <= date
InEffect(S, date) ==
    {r \in {S[i] : i \in 1..Len(S)} :
        /\ r.Date <= date
        /\ \A i \in 1..Len(S) : S[i].Date <= date => S[i].Date <= r.Date}

SessionScore(r) == IF Qualifies(r) THEN calculate_run_vdot(r.Dist.num, r.Dur.num) ELSE 0

\* the best session score among the frame rows I, 0 when I is empty
BestOf(I) ==
    IF I = {} THEN 0
    ELSE CHOOSE v \in {SessionScore(outcome.frame[i]) : i \in I} :
             \A i \in I : v >= SessionScore(outcome.frame[i])

\* C11: the performance score of a written row is the best session score of
\* the records dated within the 42 days up to the end of the week's Sunday:
\* every run of the week, at any time of its Sunday, is counted, and no run
\* dated on the following Monday or later is
C11_ScoreWindowEndsAtWeekEnd ==
    Ran => \A k \in 1..Len(outcome.rows) :
        LET row == outcome.rows[k]
            sunday == MondayOfRow(row) + 6
            inWindow == {i \in FrameIdx :
                            /\ DayOf(outcome.frame[i].Date) >= sunday - WindowDays
                            /\ outcome.frame[i].Date < (sunday + 1) * 24}
        IN  row[9] = Num(BestOf(inWindow))

-----------------------------------------------------------------------------
(* get_current_vdot applied to drawn records, end dates and windows *)

FastRun == [LongRun EXCEPT !.Dur = Num(40)]

\* a 50-minute and a 40-minute 10 km run, a 2 km jog (too short to score) and
\* a run whose distance cell is blank
ScoreShapes == {LongRun, FastRun, ShortJog, [LongRun EXCEPT !.Dist = Blank]}

\* Monday 2024-01-08 07:00 and 20:00, Monday 2024-01-15 07:00 and 20:00
ScoreDates == {7, 20, 175, 188}

\* Monday 2024-01-15 07:00, and 42 days after each of the first two dates
EndDates == {175, 7 + WindowDays * 24, 20 + WindowDays * 24}

\* the default window of 42 days, and one of a week
WindowChoices == {WindowDays, DaysPerWeek}

InitScore ==
    /\ activities \in Sheets(ScoreDates, ScoreShapes, MaxRecs)
    /\ settings = NoSheet
    /\ report = NoSheet
    /\ now \in EndDates
    /\ outcome = NoRun

\* get_current_vdot(df, end_date, window_days) called once on the sheet, with
\* end_date = now
ScoreWindow ==
    /\ outcome = NoRun
    /\ \E window_days \in WindowChoices :
          outcome' = [run |-> "get_current_vdot", status |-> "returned", at |-> now,
                      frame |-> activities, window_days |-> window_days,
                      value |-> get_current_vdot(activities, now, window_days)]
    /\ UNCHANGED <<activities, settings, report, now>>

SpecScore == InitScore /\ [][ScoreWindow]_vars

\* the frame rows dated within [end_date - window_days, end_date] of the call
InInterval ==
    {i \in FrameIdx : /\ outcome.frame[i].Date >= outcome.at - outcome.window_days * 24
                      /\ outcome.frame[i].Date <= outcome.at}

\* C12: get_current_vdot returns the best session score over exactly the
\* records dated from end_date - window_days to end_date, both inclusive, and
\* 0 when none of them has a positive score
C12_BestInWindow ==
    outcome.run = "get_current_vdot" =>
        /\ outcome.value = BestOf(InInterval)
        /\ (\A i \in InInterval : SessionScore(outcome.frame[i]) <= 0) => outcome.value = 0

\* C12 witness: a call whose result is the score of a record dated exactly at
\* end_date, a faster run dated after end_date being ignored
C12_Witness ==
    /\ outcome.run = "get_current_vdot"
    /\ outcome.value > 0
    /\ \E i \in FrameIdx : /\ outcome.frame[i].Date = outcome.at
                           /\ SessionScore(outcome.frame[i]) = outcome.value
    /\ \E j \in FrameIdx : /\ outcome.frame[j].Date > outcome.at
                           /\ SessionScore(outcome.frame[j]) > outcome.value

-----------------------------------------------------------------------------
(* The status expression applied to drawn Form values *)

\* the largest |Form| drawn, in whole units
MaxForm == 12

\* Form values (1/10000): every tenth from -MaxForm to MaxForm, and the
\* values next to the two thresholds
FormInputs ==
    {f * 1000 : f \in (-MaxForm * 10)..(MaxForm * 10)}
        \cup {100000 + e : e \in {-1, 1}} \cup {-100000 + e : e \in {-1, 1}}

InitStatus ==
    /\ activities = <<>>
    /\ settings = NoSheet
    /\ report = NoSheet
    /\ now = 0
    /\ outcome = NoRun

\* the status expression of analysis.py:298 and history_backfill.py:236
\* evaluated once on a Form value
LabelForm ==
    /\ outcome = NoRun
    /\ \E current_tsb \in FormInputs :
          outcome' = [run |-> "status", status |-> "returned", at |-> now,
                      tsb |-> current_tsb, label |-> StatusOf(current_tsb)]
    /\ UNCHANGED <<activities, settings, report, now>>

SpecStatus == InitStatus /\ [][LabelForm]_vars

\* C13: the label is "recovered" exactly when Form > 10, "fatigued" exactly
\* when Form <= -10 and "moderate" exactly when -10 < Form <= 10
C13_StatusRegions ==
    outcome.run = "status" =>
        /\ outcome.label \in {"recovered", "moderate", "fatigued"}
        /\ outcome.label = "recovered" <=> outcome.tsb > 100000
        /\ outcome.label = "fatigued" <=> outcome.tsb <= -100000
        /\ outcome.label = "moderate" <=> (outcome.tsb > -100000 /\ outcome.tsb <= 100000)

\* C13 witness: Form = -10 exactly is labelled "fatigued"
C13_Witness ==
    outcome.run = "status" /\ outcome.tsb = -100000 /\ outcome.label = "fatigued"

-----------------------------------------------------------------------------
(* calculate_decoupling applied to drawn split sequences *)

MaxSplits == 5

Split(pace, hr) == [pace |-> Chars(pace), hr |-> hr]

\* kilometre splits as main.py writes them: two running splits, a split of
\* speed 0 (get_pace_str gives 0'00") and a split without heart rate (hr 0)
SplitKinds ==
    {Split(<<"5", "'", "0", "0", "\"">>, 150), Split(<<"5", "'", "0", "6", "\"">>, 155),
     Split(<<"0", "'", "0", "0", "\"">>, 150), Split(<<"5", "'", "0", "0", "\"">>, 0)}

SplitSeqs == UNION {[1..n -> SplitKinds] : n \in 0..MaxSplits}

InitDecoupling ==
    /\ activities = <<>>
    /\ settings = NoSheet
    /\ report = NoSheet
    /\ now = 0
    /\ outcome = NoRun

\* calculate_decoupling called once on a decoded split list
Decouple ==
    /\ outcome = NoRun
    /\ \E splits \in SplitSeqs :
          outcome' = [run |-> "calculate_decoupling", status |-> "returned", at |-> now,
                      splits |-> splits, value |-> calculate_decoupling(splits)]
    /\ UNCHANGED <<activities, settings, report, now>>

SpecDecoupling == InitDecoupling /\ [][Decouple]_vars

\* the sum of the speeds (1/10000 m/s) and of the heart rates of the splits
\* from..to of the call
SpeedSum(from, to) ==
    SumSeq([i \in 1..(to - from + 1) |-> parse_pace_to_speed(outcome.splits[from + i - 1].pace)])

HrSum(from, to) == SumSeq([i \in 1..(to - from + 1) |-> outcome.splits[from + i - 1].hr])

\* C14: the result is "not computable" for fewer than 4 splits and for a half
\* of mean heart rate 0; for every other split list it is a number, equal to
\* (EF1 - EF2) / EF1 * 100 rounded to two decimals with EF = mean speed / mean
\* heart rate of the half, and 0 when both halves have the same EF
C14_Decoupling ==
    outcome.run = "calculate_decoupling" =>
        LET n == Len(outcome.splits)
            half == n \div 2
            S1 == SpeedSum(1, half)
            H1 == HrSum(1, half)
            S2 == SpeedSum(half + 1, n)
            H2 == HrSum(half + 1, n)
        IN  IF n < 4 \/ H1 = 0 \/ H2 = 0 THEN IsNone(outcome.value)
            ELSE /\ "val" \in DOMAIN outcome.value
                 /\ S1 > 0 => outcome.value.val =
                                 RoundHalfEven(1000000 - DivDigits(S2 * H1, S1 * H2, 6), 100)
                 /\ S1 * H2 = S2 * H1 => outcome.value.val = 0

-----------------------------------------------------------------------------
(* The two aggregators run over weeks whose runs have missing or unparseable *)
(* pace cells                                                                *)

\* runs with a pace, a run whose Avg Pace cell is empty and a run whose cell
\* holds "-"
PaceShapes ==
    {LongRun, ShortJog, [LongRun EXCEPT !.Pace = Blank],
     [ShortJog EXCEPT !.Pace = Chars(<<"-">>)]}

\* the records are dated Monday 07:00 and Sunday 20:00 of the week 2024-01-08
\* and the aggregators run on the Monday after, 07:00
InitAvgPace ==
    /\ activities \in Sheets({7, 164}, PaceShapes, MaxRecs)
    /\ settings = OneProfile
    /\ report = NoSheet
    /\ now = 175
    /\ outcome = NoRun

SpecAvgPace == InitAvgPace /\ [][NextRun]_vars

\* the frame rows of the calendar week of a report row
WeekRecords(row) ==
    {i \in FrameIdx : /\ outcome.frame[i].Date >= MondayOfRow(row) * 24
                      /\ outcome.frame[i].Date < (MondayOfRow(row) + DaysPerWeek) * 24}

\* C15: the Avg Pace of a written row is the sum of the pace seconds of the
\* week's runs (0 for a pace that is missing or does not parse) divided by the
\* run count written in the row, "-" for a week without runs; and the
\* incremental row and the backfill row of the same week hold the same pace
C15_AveragePace ==
    Ran => \A k \in 1..Len(outcome.rows) :
        LET row == outcome.rows[k]
            n == Cardinality(WeekRecords(row))
            total == SumOver([i \in FrameIdx |-> parse_pace(outcome.frame[i].Pace)],
                             WeekRecords(row))
            b == BackfillCompute(activities, settings, outcome.at)
        IN  /\ row[4] = Num(n)
            /\ n = 0 => row[5] = Chars(<<"-">>)
            /\ (n > 0 /\ total > 0) => row[5] = PaceFmt(total, row[4].num)
            /\ (outcome.run = "analysis" /\ b.status = "ok") =>
                   \A j \in 1..Len(b.rows) : b.rows[j][1] = row[1] => b.rows[j][5] = row[5]

-----------------------------------------------------------------------------
(* The pace format written in report rows and parse_pace, applied to drawn *)
(* seconds and drawn strings                                               *)

MaxPaceSec == 700

MaxPaceLen == 5

PaceAlphabet == {"5", "0", "'", "\"", "x"}

PaceStrings == UNION {[1..n -> PaceAlphabet] : n \in 0..MaxPaceLen}

InitPace ==
    /\ activities = <<>>
    /\ settings = NoSheet
    /\ report = NoSheet
    /\ now = 0
    /\ outcome = NoRun

\* a whole number of seconds is written as pace_fmt and the text is read back
\* with parse_pace
FormatThenParse ==
    /\ outcome = NoRun
    /\ \E avg_pace_sec \in 1..MaxPaceSec :
          outcome' = [run |-> "pace_fmt", status |-> "returned", at |-> now,
                      secs |-> avg_pace_sec, text |-> PaceFmt(avg_pace_sec, 1),
                      value |-> parse_pace(PaceFmt(avg_pace_sec, 1))]
    /\ UNCHANGED <<activities, settings, report, now>>

\* parse_pace called once on a string
ParsePace ==
    /\ outcome = NoRun
    /\ \E p_str \in PaceStrings :
          outcome' = [run |-> "parse_pace", status |-> "returned", at |-> now,
                      text |-> Chars(p_str), value |-> parse_pace(Chars(p_str))]
    /\ UNCHANGED <<activities, settings, report, now>>

NextPace == FormatThenParse \/ ParsePace

SpecPace == InitPace /\ [][NextPace]_vars

\* the string is minutes, an apostrophe, two digits of seconds and a double
\* quote
ExactFormat(s) ==
    LET a == IndexOf(s, "'", 1)
    IN  /\ a > 1
        /\ Len(s) = a + 3
        /\ \A i \in 1..(a - 1) : IsDigit(s[i])
        /\ IsDigit(s[a + 1]) /\ IsDigit(s[a + 2])
        /\ s[a + 3] = "\""

\* C16: a whole number of seconds s > 0 written as M'SS" parses back to s,
\* and a string that is not of the form M'SS" parses to 0
C16_PaceRoundTrip ==
    /\ outcome.run = "pace_fmt" =>
          (ExactFormat(outcome.text.chars) /\ outcome.value = outcome.secs)
    /\ (outcome.run = "parse_pace" /\ ~ExactFormat(outcome.text.chars)) => outcome.value = 0

-----------------------------------------------------------------------------
(* The columns of Weekly_Report *)

\* the position of the header cell name in the header row, 0 if there is none
ColumnOf(header, name) ==
    IF \E c \in 1..Len(header) : header[c] = Str(name)
    THEN CHOOSE c \in 1..Len(header) : header[c] = Str(name)
    ELSE 0

IsStatusCell(c) == c \in {Str("recovered"), Str("moderate"), Str("fatigued")}

IsDecouplingCell(c) == c = Str("-") \/ "pct" \in DOMAIN c

\* C17: every data row of Weekly_Report has as many cells as the header row,
\* the cell under "Status" is a status label and the cell under
\* "LSD Decouple", where the sheet has that column, is a decoupling value or
\* "-"
C17_RowsMatchHeader ==
    IsSheet(report) =>
        LET header == report.rows[1]
            status == ColumnOf(header, "Status")
            lsd == ColumnOf(header, "LSD Decouple")
        IN  \A i \in 2..Len(report.rows) :
                /\ Len(report.rows[i]) = Len(header)
                /\ status # 0 /\ IsStatusCell(report.rows[i][status])
                /\ lsd # 0 => IsDecouplingCell(report.rows[i][lsd])

-----------------------------------------------------------------------------
(* The two aggregators run over runs of varied duration and effort *)

\* the longest run drawn, in minutes
MaxRunMinutes == 90

\* 10 km runs lasting 25, 30, ... minutes at average heart rate 140 or 160
EffortShapes ==
    {[LongRun EXCEPT !.Dur = Num(5 * d), !.HR = Num(h)] :
        d \in 5..(MaxRunMinutes \div 5), h \in {140, 160}}

\* the records are dated Monday 07:00 and Sunday 20:00 of the week 2024-01-08
\* and the aggregators run on the Monday after, 07:00
InitForm ==
    /\ activities \in Sheets({7, 164}, EffortShapes, MaxRecs)
    /\ settings = OneProfile
    /\ report = NoSheet
    /\ now = 175
    /\ outcome = NoRun

SpecForm == InitForm /\ [][NextRun]_vars

\* C18: in every row a run writes, the status label is the label of the Form
\* value written in the row (Form rounded to one decimal)
C18_StatusAgreesWithForm ==
    Ran => \A k \in 1..Len(outcome.rows) :
        LET row == outcome.rows[k]
        IN  row[Len(row)] = Str(StatusOf(row[8].num * 1000))

====
